---- MODULE Spec2Model ----
(***************************************************************************)
(* merfish/to_zarr.py: the batch script that reads the processed MERFISH   *)
(* inputs, builds the Table, the two Points layers, the Image with its     *)
(* affine transform and the Polygons layer, assembles them into one        *)
(* SpatialData object and writes it to data.zarr, deleting any store that  *)
(* is already there.                                                       *)
(*                                                                         *)
(* The script is a straight line of statements; an uncaught exception in   *)
(* any of them ends the run.  pc is the statement about to run, status     *)
(* says whether the run is still running, died on an exception at pc, or   *)
(* ran to the end.  Python names are bound in env; AnnData objects are     *)
(* mutable and live in heap, env holds references to them.                 *)
(***************************************************************************)
EXTENDS Integers, Sequences, FiniteSets, TLC

VARIABLES
    pc,        \* the statement of the script about to run
    status,    \* "running" | "failed" | "exited"
    err,       \* the exception that ended the run, "" when none
    env,       \* Python name -> value (a reference for AnnData objects)
    heap,      \* reference -> AnnData object
    files,     \* the content of data/processed (never written by the script)
    store,     \* the destination path data.zarr
    prior,     \* history: the destination as it was when the run started
    wpos,      \* progress of sdata.write: 0 before it starts, then 1 + elements written
    out        \* what the script printed, in order

vars == <<pc, status, err, env, heap, files, store, prior, wpos, out>>

----------------------------------------------------------------------------
(* Bounds of the model *)

MaxCells == 2
MaxMolecules == 1
MaxFeatures == 2
MaxCoord == 2

----------------------------------------------------------------------------
(* Small helpers for Python dicts (functions over a set of string keys) *)

EmptyMap == <<>>

Put(d, k, v) == (k :> v) @@ d

Del(d, k) == [x \in DOMAIN d \ {k} |-> d[x]]

\* np.arange(n): 0, 1, .., n-1
arange(n) == [i \in 1..n |-> i - 1]

\* assigning a scalar to an obs column broadcasts it over the rows
Broadcast(n, v) == [i \in 1..n |-> v]

----------------------------------------------------------------------------
(* AnnData objects *)

\* ad.AnnData(shape=(n, 0)): n rows, no feature columns, nothing attached
AnnData(n) ==
    [n_obs |-> n, var_names |-> <<>>, X |-> [i \in 1..n |-> <<>>],
     obs |-> EmptyMap, obsm |-> EmptyMap, uns |-> EmptyMap]

\* len(adata) is the number of rows
len(a) == a.n_obs

----------------------------------------------------------------------------
(* The inputs under data/processed *)

\* cells.h5ad: n cells, two feature columns, the embedded spatial fields and
\* one ordinary obs column
CellsFile(n) ==
    [n_obs |-> n,
     var_names |-> <<"gene_a", "gene_b">>,
     X |-> [i \in 1..n |-> <<10 * i, 10 * i + 1>>],
     obs |-> [batch |-> Broadcast(n, "b0")],
     obsm |-> [region_radius |-> [i \in 1..n |-> 100 + i],
               spatial |-> [i \in 1..n |-> <<i - 1, i - 1>>]],
     uns |-> EmptyMap]

\* single_molecule.h5ad: m molecules, X holds the coordinates, obsm the label
MoleculesFile(m) ==
    [n_obs |-> m,
     var_names |-> <<"x", "y">>,
     X |-> [i \in 1..m |-> <<3 * i, 3 * i + 1>>],
     obs |-> EmptyMap,
     obsm |-> [cell_type |-> [i \in 1..m |-> IF i % 2 = 0 THEN "neuron" ELSE "glia"]],
     uns |-> EmptyMap]

\* image.png: a raster of h x w pixels
Images == {[h |-> 1, w |-> 1], [h |-> 2, w |-> 3]}

\* image_transform.json: exactly four numeric fields
AlignmentRecords ==
    {[translation_x |-> 5, translation_y |-> -3, scale_factor_x |-> 2, scale_factor_y |-> 2],
     [translation_x |-> 0, translation_y |-> 0, scale_factor_x |-> 1, scale_factor_y |-> 1],
     [translation_x |-> 1, translation_y |-> -2, scale_factor_x |-> 3, scale_factor_y |-> 2],
     [translation_x |-> -4, translation_y |-> 7, scale_factor_x |-> -1, scale_factor_y |-> 4]}

\* anatomical.geojson: a list of geometries, each with a type tag, a name and
\* a list of rings
GeometryTypes == {"Polygon", "MultiPolygon"}

Geometry(i, ty) ==
    [type |-> ty, name |-> i,
     coordinates |-> <<[k \in 1..3 |-> <<i + k, i * k>>]>>]

GeoDocuments ==
    UNION {{[geometries |-> [i \in 1..n |-> Geometry(i, tys[i])]] :
                tys \in [1..n -> GeometryTypes]} : n \in 0..MaxFeatures}

InputFiles ==
    [cells : {CellsFile(n) : n \in 0..MaxCells},
     image : Images,
     single_molecule : {MoleculesFile(m) : m \in 0..MaxMolecules},
     image_transform : AlignmentRecords,
     anatomical : GeoDocuments]

----------------------------------------------------------------------------
(* The destination path.  A store is a directory of subtrees, one per      *)
(* element, keyed by <<kind, name>>; an entry records where its content    *)
(* came from, how many rows or pixels it holds and its transform metadata. *)

NoStore == [exists |-> FALSE, tree |-> EmptyMap]

NoTransform == <<>>

PriorEntry == [origin |-> "prior", count |-> 7, transform |-> NoTransform]

PriorPaths == {<<"points", "cells">>, <<"labels", "stale">>}

PriorStores ==
    {NoStore} \cup
    {[exists |-> TRUE, tree |-> [p \in ps |-> PriorEntry]] : ps \in SUBSET PriorPaths}

----------------------------------------------------------------------------
Init ==
    /\ pc = "read_inputs"
    /\ status = "running"
    /\ err = ""
    /\ env = EmptyMap
    /\ heap = EmptyMap
    /\ files \in InputFiles
    /\ store \in PriorStores
    /\ prior = store
    /\ wpos = 0
    /\ out = <<>>

Running(p) == status = "running" /\ pc = p

\* an uncaught exception ends the run at the statement that raised it
Raise(e) ==
    /\ status' = "failed"
    /\ err' = e
    /\ UNCHANGED <<pc, env, heap, files, store, prior, wpos, out>>

Goto(p) == pc' = p /\ UNCHANGED <<status, err>>

\* ReadInputs with the destination cleared first, before anything is read
ReadInputsClearingDestination ==
    /\ Running("read_inputs")
    /\ \/ /\ heap' = Put(Put(heap, "cells@23", files.cells),
                         "adata@25", files.single_molecule)
          /\ env' = Put(Put(Put(env, "cells", "cells@23"), "img", files.image),
                        "adata", "adata@25")
          /\ store' = NoStore
          /\ Goto("single_molecule")
          /\ UNCHANGED <<files, prior, wpos, out>>
       \/ Raise("IOError")

\* lines 23-25: cells = sc.read_h5ad(..), img = imageio.imread(..),
\* adata = sc.read_h5ad(..)
ReadInputs ==
    /\ Running("read_inputs")
    /\ \/ /\ heap' = Put(Put(heap, "cells@23", files.cells),
                         "adata@25", files.single_molecule)
          /\ env' = Put(Put(Put(env, "cells", "cells@23"), "img", files.image),
                        "adata", "adata@25")
          /\ Goto("single_molecule")
          /\ UNCHANGED <<files, store, prior, wpos, out>>
       \/ Raise("IOError")

\* lines 26-28: single_molecule = ad.AnnData(shape=(len(adata), 0)) with the
\* coordinates under 'spatial' and the labels under 'spatial_type'
SingleMolecule(a) ==
    [AnnData(len(a)) EXCEPT
        !.obsm = Put(Put(EmptyMap, "spatial", a.X), "spatial_type", a.obsm.cell_type)]

BuildSingleMolecule ==
    /\ Running("single_molecule")
    /\ heap' = Put(heap, "single_molecule@26", SingleMolecule(heap[env.adata]))
    /\ env' = Put(env, "single_molecule", "single_molecule@26")
    /\ Goto("load_json")
    /\ UNCHANGED <<files, store, prior, wpos, out>>

\* line 31: image_translation = np.array([j["translation_x"], j["translation_y"]])
ImageTranslation(j) == <<j.translation_x, j.translation_y>>

\* line 32: image_scale_factors = np.array([j["scale_factor_x"], j["scale_factor_y"]])
ImageScaleFactors(j) == <<j.scale_factor_x, j.scale_factor_y>>

\* lines 30-32: j = json.load(open(..)) and the two vectors taken from it
LoadTransformJson ==
    /\ Running("load_json")
    /\ \/ /\ env' = Put(Put(Put(env, "j", files.image_transform),
                            "image_translation", ImageTranslation(files.image_transform)),
                        "image_scale_factors", ImageScaleFactors(files.image_transform))
          /\ Goto("expression")
          /\ UNCHANGED <<heap, files, store, prior, wpos, out>>
       \/ Raise("IOError")

\* expression = cells without .copy(): both names refer to one object
CopyRefAliased(src, site) == src

\* line 34: cells.copy() is a new object; the reference it is bound to
CopyRef(src, site) == site

\* lines 35-39 on the object expression refers to: the two spatial fields are
\* deleted, mapping_info and the two obs columns are added
SplitTable(e) ==
    [e EXCEPT
        !.obsm = Del(Del(e.obsm, "region_radius"), "spatial"),
        !.uns = Put(e.uns, "mapping_info",
                    [regions |-> "cells", regions_key |-> "regions_id",
                     instance_key |-> "cell_id"]),
        !.obs = Put(Put(e.obs, "regions_id", Broadcast(len(e), "cells")),
                    "cell_id", arange(len(e)))]

\* lines 34-39: expression = cells.copy() and its edits; del raises KeyError on
\* a field that is not there
BuildExpression ==
    /\ Running("expression")
    /\ LET ref == CopyRef(env.cells, "expression@34")
           e == heap[env.cells]
       IN IF {"region_radius", "spatial"} \subseteq DOMAIN e.obsm
          THEN /\ heap' = Put(heap, ref, SplitTable(e))
               /\ env' = Put(env, "expression", ref)
               /\ Goto("regions")
               /\ UNCHANGED <<files, store, prior, wpos, out>>
          ELSE Raise("KeyError")

\* Regions with cell_id counted from 1
RegionsCountedFromOne(c) ==
    LET r == AnnData(Len(c.obsm.spatial))
    IN [r EXCEPT
          !.obsm = Put(Put(EmptyMap, "region_radius", c.obsm.region_radius),
                       "spatial", c.obsm.spatial),
          !.obs = Put(EmptyMap, "cell_id", [i \in 1..len(r) |-> i])]

\* lines 41-44: regions = ad.AnnData(shape=(len(cells.obsm['spatial']), 0))
\* holding the radius, the coordinates and a fresh cell_id
Regions(c) ==
    LET r == AnnData(Len(c.obsm.spatial))
    IN [r EXCEPT
          !.obsm = Put(Put(EmptyMap, "region_radius", c.obsm.region_radius),
                       "spatial", c.obsm.spatial),
          !.obs = Put(EmptyMap, "cell_id", arange(len(r)))]

BuildRegions ==
    /\ Running("regions")
    /\ LET c == heap[env.cells]
       IN IF {"region_radius", "spatial"} \subseteq DOMAIN c.obsm
          THEN /\ heap' = Put(heap, "regions@41", Regions(c))
               /\ env' = Put(env, "regions", "regions@41")
               /\ Goto("polygons")
               /\ UNCHANGED <<files, store, prior, wpos, out>>
          ELSE Raise("KeyError")

----------------------------------------------------------------------------
(* Coordinate transforms (2-D) *)

\* sd.Translation(translation=v): an additive offset per axis
Translation(v) == [kind |-> "Translation", translation |-> v]

\* sd.Scale(scale=v): a multiplicative factor per axis
Scale(v) == [kind |-> "Scale", scale |-> v]

\* sd.compose_transformations(a, b): apply a, then b
compose_transformations(a, b) == [kind |-> "Sequence", transformations |-> <<a, b>>]

Affine(m, o) == [kind |-> "Affine", matrix |-> m, offset |-> o]

IdentityMatrix == <<<<1, 0>>, <<0, 1>>>>

MatVec(m, x) == <<m[1][1] * x[1] + m[1][2] * x[2], m[2][1] * x[1] + m[2][2] * x[2]>>

MatMul(a, b) ==
    [r \in 1..2 |-> [c \in 1..2 |-> a[r][1] * b[1][c] + a[r][2] * b[2][c]]]

\* the affine map that applies f first and g second
Then(f, g) ==
    LET go == MatVec(g.matrix, f.offset)
    IN Affine(MatMul(g.matrix, f.matrix), <<go[1] + g.offset[1], go[2] + g.offset[2]>>)

RECURSIVE to_affine(_)
\* .to_affine(): the canonical matrix + offset form of any transform
to_affine(t) ==
    CASE t.kind = "Affine" -> t
      [] t.kind = "Translation" -> Affine(IdentityMatrix, t.translation)
      [] t.kind = "Scale" -> Affine(<<<<t.scale[1], 0>>, <<0, t.scale[2]>>>>, <<0, 0>>)
      [] t.kind = "Sequence" ->
            IF t.transformations = <<>>
            THEN Affine(IdentityMatrix, <<0, 0>>)
            ELSE LET n == Len(t.transformations)
                     front == [kind |-> "Sequence",
                               transformations |-> SubSeq(t.transformations, 1, n - 1)]
                 IN Then(to_affine(front), to_affine(t.transformations[n]))

\* an affine transform applied to a coordinate
Apply(a, x) ==
    LET mx == MatVec(a.matrix, x) IN <<mx[1] + a.offset[1], mx[2] + a.offset[2]>>

\* Composed with the two arguments of compose_transformations exchanged
ComposedTranslationFirst(scale, translation) ==
    to_affine(compose_transformations(translation, scale))

\* line 62: composed = sd.compose_transformations(scale, translation).to_affine()
Composed(scale, translation) == to_affine(compose_transformations(scale, translation))

\* lines 58-62
ComposeTransform ==
    /\ Running("transform")
    /\ LET translation == Translation(env.image_translation)
           scale == Scale(env.image_scale_factors)
       IN env' = Put(Put(Put(env, "translation", translation), "scale", scale),
                     "composed", Composed(scale, translation))
    /\ Goto("assemble")
    /\ UNCHANGED <<heap, files, store, prior, wpos, out>>

----------------------------------------------------------------------------
(* Polygons *)

\* Polygons.anndata_from_geojson(path): one row per polygon with its name and
\* its single ring; a geometry that is not a simple polygon is a ParseError
anndata_from_geojson(doc) ==
    LET g == doc.geometries
        n == Len(g)
    IN IF \E i \in 1..n : g[i].type # "Polygon" \/ Len(g[i].coordinates) # 1
       THEN [error |-> "ParseError", value |-> AnnData(0)]
       ELSE [error |-> "",
             value |-> [AnnData(n) EXCEPT
                          !.obs = Put(Put(EmptyMap, "name", [i \in 1..n |-> g[i].name]),
                                      "spatial", [i \in 1..n |-> g[i].coordinates[1]])]]

\* line 47: adata_polygons = Polygons.anndata_from_geojson(..)
ParsePolygons ==
    /\ Running("polygons")
    /\ \/ LET r == anndata_from_geojson(files.anatomical)
          IN IF r.error = ""
             THEN /\ heap' = Put(heap, "adata_polygons@47", r.value)
                  /\ env' = Put(env, "adata_polygons", "adata_polygons@47")
                  /\ Goto("transform")
                  /\ UNCHANGED <<files, store, prior, wpos, out>>
             ELSE Raise(r.error)
       \/ Raise("IOError")

----------------------------------------------------------------------------
(* The dataset *)

\* sd.SpatialData(table, points, images, images_transform, polygons): the
\* aggregate, or the error its validation ends with
SpatialData(h, table, points, images, images_transform, polygons) ==
    LET info == h[table].uns.mapping_info
        value == [table |-> table, points |-> points, images |-> images,
                  images_transform |-> images_transform, polygons |-> polygons]
    IN IF ~(DOMAIN images_transform \subseteq DOMAIN images)
       THEN [error |-> "ValidationError", value |-> value]
       ELSE IF info.regions \notin DOMAIN points
       THEN [error |-> "ConsistencyError", value |-> value]
       ELSE IF \/ len(h[table]) # len(h[points[info.regions]])
               \/ h[table].obs[info.instance_key] # h[points[info.regions]].obs[info.instance_key]
       THEN [error |-> "ConsistencyError", value |-> value]
       ELSE [error |-> "", value |-> value]

\* lines 64-70: the names under which the script hands its layers over
Sdata(h, e) ==
    SpatialData(h, e.expression,
                Put(Put(EmptyMap, "cells", e.regions), "single_molecule", e.single_molecule),
                Put(EmptyMap, "rasterized", e.img),
                Put(EmptyMap, "rasterized", e.composed),
                Put(EmptyMap, "anatomical", e.adata_polygons))

\* lines 64-70: sdata = sd.SpatialData(..)
Assemble ==
    /\ Running("assemble")
    /\ LET r == Sdata(heap, env)
       IN IF r.error = ""
          THEN /\ env' = Put(env, "sdata", r.value)
               /\ Goto("print_summary")
               /\ UNCHANGED <<heap, files, store, prior, wpos, out>>
          ELSE Raise(r.error)

\* line 71: print(sdata)
PrintSummary ==
    /\ Running("print_summary")
    /\ out' = Append(out, "summary")
    /\ Goto("exists")
    /\ UNCHANGED <<env, heap, files, store, prior, wpos>>

----------------------------------------------------------------------------
(* The write phase *)

\* PathExists answering that nothing is there
PathExistsNever(s) == FALSE

\* PathExists with the test negated
PathExistsNegated(s) == ~s.exists

\* line 74: path_write.exists()
PathExists(s) == s.exists

\* line 74: if path_write.exists():
CheckExists ==
    /\ Running("exists")
    /\ IF PathExists(store) THEN Goto("rmtree") ELSE Goto("write")
    /\ UNCHANGED <<env, heap, files, store, prior, wpos, out>>

\* RmTree that deletes nothing and goes on to the write
RmTreeSkipped ==
    /\ Running("rmtree")
    /\ Goto("write")
    /\ UNCHANGED <<env, heap, files, store, prior, wpos, out>>

\* line 75: shutil.rmtree(path_write) removes the subtrees one by one, then the
\* directory itself; an OS error on the way is raised and ends the run with
\* what is left
RmTree ==
    /\ Running("rmtree")
    /\ \/ /\ \E p \in DOMAIN store.tree : store' = [store EXCEPT !.tree = Del(@, p)]
          /\ UNCHANGED <<pc, status, err, env, heap, files, prior, wpos, out>>
       \/ /\ DOMAIN store.tree = {}
          /\ store' = NoStore
          /\ Goto("write")
          /\ UNCHANGED <<env, heap, files, prior, wpos, out>>
       \/ Raise("IOError")

RECURSIVE SeqOf(_)
\* the elements of a finite set in some fixed order
SeqOf(S) == IF S = {} THEN <<>> ELSE LET x == CHOOSE y \in S : TRUE IN <<x>> \o SeqOf(S \ {x})

\* the subtrees a dataset is written to, in the order they are written
WriteOrder(sd) ==
    <<<<"table", "table">>>>
    \o SeqOf({<<"points", n>> : n \in DOMAIN sd.points})
    \o SeqOf({<<"images", n>> : n \in DOMAIN sd.images})
    \o SeqOf({<<"polygons", n>> : n \in DOMAIN sd.polygons})

\* rows of a table, points or polygons element; pixels of an image
PixelCount(img) == img.h * img.w

\* the canonical affine parameters kept as an image's sidecar metadata
TransformMetadata(sd, n) ==
    IF n \in DOMAIN sd.images_transform
    THEN LET a == to_affine(sd.images_transform[n])
         IN <<[matrix |-> a.matrix, offset |-> a.offset]>>
    ELSE NoTransform

\* what sdata.write puts under one subtree
StoreEntry(h, sd, p) ==
    CASE p[1] = "table" ->
            [origin |-> "new", count |-> len(h[sd.table]), transform |-> NoTransform]
      [] p[1] = "points" ->
            [origin |-> "new", count |-> len(h[sd.points[p[2]]]), transform |-> NoTransform]
      [] p[1] = "polygons" ->
            [origin |-> "new", count |-> len(h[sd.polygons[p[2]]]), transform |-> NoTransform]
      [] p[1] = "images" ->
            [origin |-> "new", count |-> PixelCount(sd.images[p[2]]),
             transform |-> TransformMetadata(sd, p[2])]

\* WriteRaises with the error caught and dropped: the script goes on
WriteRaisesSwallowed ==
    /\ Goto("print_done")
    /\ UNCHANGED <<env, heap, files, store, prior, wpos, out>>

\* line 76: an error inside sdata.write is not caught: it ends the run
WriteRaises == Raise("IOError")

\* line 76: sdata.write(path_write) creates the store, then writes one subtree
\* after the other; an error on the way is raised and leaves what was written
Write ==
    /\ Running("write")
    /\ LET order == WriteOrder(env.sdata)
       IN \/ /\ wpos = 0
             /\ store' = [store EXCEPT !.exists = TRUE]
             /\ wpos' = 1
             /\ UNCHANGED <<pc, status, err, env, heap, files, prior, out>>
          \/ /\ wpos \in 1..Len(order)
             /\ store' = [store EXCEPT
                            !.tree = Put(@, order[wpos], StoreEntry(heap, env.sdata, order[wpos]))]
             /\ wpos' = wpos + 1
             /\ IF wpos = Len(order) THEN Goto("print_done") ELSE UNCHANGED <<pc, status, err>>
             /\ UNCHANGED <<env, heap, files, prior, out>>
          \/ WriteRaises

\* line 77: print('done')
PrintDone ==
    /\ Running("print_done")
    /\ out' = Append(out, "done")
    /\ Goto("print_view")
    /\ UNCHANGED <<env, heap, files, store, prior, wpos>>

\* line 78: print('view with ..'), the last statement
PrintView ==
    /\ Running("print_view")
    /\ out' = Append(out, "view")
    /\ status' = "exited"
    /\ UNCHANGED <<pc, err, env, heap, files, store, prior, wpos>>

Next ==
    \/ ReadInputs
    \/ BuildSingleMolecule
    \/ LoadTransformJson
    \/ BuildExpression
    \/ BuildRegions
    \/ ParsePolygons
    \/ ComposeTransform
    \/ Assemble
    \/ PrintSummary
    \/ CheckExists
    \/ RmTree
    \/ Write
    \/ PrintDone
    \/ PrintView

Spec == Init /\ [][Next]_vars

----------------------------------------------------------------------------
(* Reopening a store: the layers found under each kind with their sizes,   *)
(* the affine transform rebuilt from each image's metadata, and whatever   *)
(* else lies in the directory.                                             *)

Names(s, kind) == {p[2] : p \in {q \in DOMAIN s.tree : q[1] = kind}}

read(s) ==
    [table |-> [n \in Names(s, "table") |-> s.tree[<<"table", n>>].count],
     points |-> [n \in Names(s, "points") |-> s.tree[<<"points", n>>].count],
     images |-> [n \in Names(s, "images") |-> s.tree[<<"images", n>>].count],
     images_transform |->
        [n \in {m \in Names(s, "images") : s.tree[<<"images", m>>].transform # NoTransform} |->
            LET t == s.tree[<<"images", n>>].transform[1] IN Affine(t.matrix, t.offset)],
     polygons |-> [n \in Names(s, "polygons") |-> s.tree[<<"polygons", n>>].count],
     other |-> {p \in DOMAIN s.tree : p[1] \notin {"table", "points", "images", "polygons"}}]

----------------------------------------------------------------------------
(* Properties *)

Bound(name) == name \in DOMAIN env

WriteReturned == pc \in {"print_done", "print_view"}

HasPrior(p) == p \in DOMAIN store.tree /\ store.tree[p].origin = "prior"

HasNew(p) == p \in DOMAIN store.tree /\ store.tree[p].origin = "new"

\* C1: the recursive delete of a pre-existing store is complete before the
\* first piece of new data is written: new content and prior content never
\* coexist at the destination, and when the run stands between the delete and
\* the write (also when it dies there) there is no store at the destination.
C1_DeleteCompletesBeforeWrite ==
    /\ ~(\E p, q \in DOMAIN store.tree : HasPrior(p) /\ HasNew(q))
    /\ (pc = "write" /\ wpos = 0) => store = NoStore
    /\ wpos > 0 => \A p \in DOMAIN store.tree : HasNew(p)

\* a run over a non-empty prior store that has written new data
C1_Witness ==
    /\ DOMAIN prior.tree # {}
    /\ wpos >= 2
    /\ \E p \in DOMAIN store.tree : HasNew(p)

\* the subtrees of the dataset held in sdata
DatasetPaths(sd) ==
    {<<"table", "table">>}
    \cup {<<"points", n>> : n \in DOMAIN sd.points}
    \cup {<<"images", n>> : n \in DOMAIN sd.images}
    \cup {<<"polygons", n>> : n \in DOMAIN sd.polygons}

\* C2: destructive overwrite: once the write has completed, the store holds
\* exactly the layer names of the newly assembled dataset, all of them newly
\* written, and no layer name that belonged only to the prior store.
C2_DestructiveOverwrite ==
    WriteReturned =>
        /\ store.exists
        /\ DOMAIN store.tree = DatasetPaths(env.sdata)
        /\ \A p \in DOMAIN store.tree : store.tree[p].origin = "new"
        /\ \A p \in DOMAIN prior.tree \ DatasetPaths(env.sdata) : p \notin DOMAIN store.tree

\* the write completed over a prior store that had a layer the dataset lacks
\* and a layer the dataset has
C2_Witness ==
    /\ WriteReturned
    /\ <<"labels", "stale">> \in DOMAIN prior.tree
    /\ <<"points", "cells">> \in DOMAIN prior.tree

\* C3: Table/region alignment: the Table has as many rows as the Points layer
\* "cells" its mapping_info names, its cell_id column is 0..n-1 in row order
\* and equals the cell_id column of that Points layer position by position;
\* these two objects are the ones the assembled dataset holds.
C3_TableRegionAlignment ==
    /\ (Bound("expression") /\ Bound("regions")) =>
          LET t == heap[env.expression]
              r == heap[env.regions]
          IN /\ t.uns.mapping_info.regions = "cells"
             /\ t.uns.mapping_info.instance_key = "cell_id"
             /\ len(t) = len(r)
             /\ Len(t.obs.cell_id) = len(t)
             /\ \A i \in 1..len(t) : t.obs.cell_id[i] = i - 1
             /\ t.obs.cell_id = r.obs.cell_id
    /\ Bound("sdata") =>
          /\ env.sdata.table = env.expression
          /\ env.sdata.points[heap[env.sdata.table].uns.mapping_info.regions] = env.regions

\* a dataset assembled from at least two cells
C3_Witness ==
    /\ Bound("sdata")
    /\ len(heap[env.sdata.table]) >= 2

Coords == (0 - MaxCoord)..MaxCoord

\* C4: the Image transform attached at assembly maps every coordinate x to
\* x * s + t elementwise, with s and t the scale factors and the translation
\* of the alignment record (scale first, then translation); for the record
\* {5, -3, 2, 2} it maps (0,0) to (5,-3) and (1,1) to (7,-1).
C4_TransformComposition ==
    Bound("sdata") =>
        LET a == env.sdata.images_transform["rasterized"]
            j == files.image_transform
        IN /\ \A x \in Coords \X Coords :
                 Apply(a, x) = <<x[1] * j.scale_factor_x + j.translation_x,
                                 x[2] * j.scale_factor_y + j.translation_y>>
           /\ (j = [translation_x |-> 5, translation_y |-> -3,
                    scale_factor_x |-> 2, scale_factor_y |-> 2]) =>
                 /\ Apply(a, <<0, 0>>) = <<5, -3>>
                 /\ Apply(a, <<1, 1>>) = <<7, -1>>

\* a dataset assembled with an alignment record for which scale-then-translate
\* and translate-then-scale differ
C4_Witness ==
    /\ Bound("sdata")
    /\ files.image_transform.translation_x = 5
    /\ files.image_transform.scale_factor_x = 2

C8_OutputOrdering ==
    LET printed == {out[i] : i \in 1..Len(out)}
    IN /\ "summary" \in printed => Bound("sdata")
       /\ (store # prior \/ wpos > 0) => "summary" \in printed
       /\ "done" \in printed =>
             /\ pc = "print_view"
             /\ wpos = Len(WriteOrder(env.sdata)) + 1
             /\ out[1] = "summary" /\ out[2] = "done"
       /\ status = "failed" => "done" \notin printed
       /\ status = "exited" => out = <<"summary", "done", "view">>

\* a write that failed half way after the summary was printed
C8_Witness ==
    /\ status = "failed"
    /\ pc = "write"
    /\ wpos >= 2
    /\ out = <<"summary">>

PreWriteSteps ==
    {"read_inputs", "single_molecule", "load_json", "expression", "regions",
     "polygons", "transform", "assemble", "print_summary", "exists"}

\* C9: the Table built from the raw per-cell table has lost the spatial and
\* the radius field, keeps every other column and field of the raw table and
\* carries mapping_info; the "cells" Points layer has no feature columns and
\* exactly the spatial and radius fields with the raw table's values; the raw
\* table itself is as it was read.
C9_TableSplit ==
    /\ Bound("expression") =>
          LET raw == files.cells
              t == heap[env.expression]
          IN /\ heap[env.cells] = raw
             /\ env.expression # env.cells
             /\ DOMAIN t.obsm = DOMAIN raw.obsm \ {"spatial", "region_radius"}
             /\ t.X = raw.X
             /\ t.var_names = raw.var_names
             /\ len(t) = len(raw)
             /\ \A k \in DOMAIN raw.obs : k \in DOMAIN t.obs /\ t.obs[k] = raw.obs[k]
             /\ \A k \in DOMAIN raw.uns : k \in DOMAIN t.uns /\ t.uns[k] = raw.uns[k]
             /\ t.uns.mapping_info = [regions |-> "cells", regions_key |-> "regions_id",
                                      instance_key |-> "cell_id"]
    /\ Bound("regions") =>
          LET raw == files.cells
              r == heap[env.regions]
          IN /\ heap[env.cells] = raw
             /\ r.var_names = <<>>
             /\ \A i \in 1..len(r) : r.X[i] = <<>>
             /\ DOMAIN r.obsm = {"spatial", "region_radius"}
             /\ r.obsm.spatial = raw.obsm.spatial
             /\ r.obsm.region_radius = raw.obsm.region_radius

\* both layers built from a raw table of at least two cells
C9_Witness ==
    /\ Bound("expression")
    /\ Bound("regions")
    /\ len(files.cells) >= 2

\* C10: a run that fails in any step before the write phase leaves the
\* destination exactly as it was; the destination differs from what it was
\* only in runs that have assembled the dataset and printed the summary.
C10_FailureLeavesPriorStore ==
    /\ (status = "failed" /\ pc \in PreWriteSteps) => (store = prior /\ wpos = 0)
    /\ store # prior => (Bound("sdata") /\ Len(out) >= 1 /\ out[1] = "summary")

\* the run died at the geometry document while a store with content was there
C10_Witness ==
    /\ status = "failed"
    /\ pc = "polygons"
    /\ DOMAIN prior.tree # {}

====
